---- MODULE Spec2Model ----
(***************************************************************************)
(* Model of the native signing and verification core of the indexer:       *)
(*   - SignatureVerifier (signature_verification.rs): an ArcSwap<Signer>   *)
(*     cell that starts as Address and is upgraded to PublicKey by the     *)
(*     first verification whose recovered key derives the address;         *)
(*   - AttestationSigner (attestation.rs): EIP-712 signing of a Receipt.   *)
(*                                                                         *)
(* The elliptic-curve library is modelled by a scaled-down ECDSA over the  *)
(* cyclic group Z_N of prime order N: a point is a non-zero residue, the   *)
(* point at infinity is 0, P and -P share their x coordinate and differ by *)
(* the parity of y.  Signing, verification and recovery are the ECDSA      *)
(* equations computed in that group, with libsecp256k1's rules: recovery   *)
(* ids 0..3, ids 2 and 3 denote x = r + N, verification accepts only       *)
(* low-S signatures, signing produces low-S signatures.  keccak is a       *)
(* scaled-down sponge over byte sequences.                                 *)
(***************************************************************************)
EXTENDS Integers, Sequences, FiniteSets, TLC

(***************************************************************************)
(* Sizes of the scaled-down primitives.                                    *)
(***************************************************************************)
\* Order of the curve group held by the SECP256K1 context.
N == 5
\* Generator of the group.
G == 2
\* Number of distinct keccak digests.
HashMod == 251
\* Number of distinct 20-byte addresses (the truncation pk_hash[12..]).
AddrMod == 64

\* Number of threads of the host's pool that run verify on one instance.
NThreads == 2

Threads == 1..NThreads
Scalars == 0..(N - 1)
Points == 1..(N - 1)
HalfN == (N - 1) \div 2

(***************************************************************************)
(* keccak over a byte sequence.                                            *)
(***************************************************************************)
RECURSIVE absorb(_, _)
absorb(h, bytes) ==
  IF bytes = << >> THEN h
  ELSE absorb((h * 33 + Head(bytes) + 1) % HashMod, Tail(bytes))

keccak(bytes) == absorb(7, bytes)

\* Message::from_slice: the 32 digest bytes, read by the curve as a scalar.
MessageFromSlice(digest) == digest % N

(***************************************************************************)
(* Group arithmetic.                                                       *)
(***************************************************************************)
InvTable == [a \in Points |-> CHOOSE b \in Points : (a * b) % N = 1]

\* Inverse of a non-zero scalar.
Inv(a) == InvTable[a]

Mul(a, P) == (a * P) % N

Neg(P) == (N - P) % N

\* x coordinate: P and -P have the same one.
XCoord(P) == IF P <= HalfN THEN P ELSE N - P

\* parity of the y coordinate: distinguishes P from -P.
YOdd(P) == IF P <= HalfN THEN 0 ELSE 1

\* PublicKey::from_secret_key
PubKey(sk) == Mul(sk, G)

\* PublicKey::serialize_uncompressed: format byte 4, then x and y.
serialize_uncompressed(Q) == <<4, XCoord(Q), YOdd(Q)>>

\* deriveAddress of a public key, as the callers of the verifier compute it:
\* the last 20 bytes of keccak of the uncompressed point without its format byte.
DeriveAddress(Q) == keccak(Tail(serialize_uncompressed(Q))) % AddrMod

KeyAddresses == {DeriveAddress(Q) : Q \in Points}

\* An address that no key of the group derives.
UnownedAddress == CHOOSE a \in 0..(AddrMod - 1) :
                    /\ a \notin KeyAddresses
                    /\ \A b \in 0..(AddrMod - 1) : b \notin KeyAddresses => a <= b

Addresses == KeyAddresses \cup {UnownedAddress}

(***************************************************************************)
(* Signatures.  A RecoverableSignature holds r, s below the group order    *)
(* and a RecoveryId in 0..3.                                               *)
(***************************************************************************)
RecoveryIds == 0..3

Signatures == [r : Scalars, s : Scalars, recid : RecoveryIds]

NoKey == 0

\* RecoverableSignature::to_standard drops the recovery id.
to_standard(signature) == [r |-> signature.r, s |-> signature.s]

\* Secp256k1::verify_ecdsa: r, s non-zero, s in the lower half, and the x
\* coordinate of (z/s) G + (r/s) Q equal to r.
verify_ecdsa(z, sig, Q) ==
  /\ sig.r # 0
  /\ sig.s # 0
  /\ sig.s <= HalfN
  /\ LET w == Inv(sig.s)
         P == (Mul((z * w) % N, G) + Mul((sig.r * w) % N, Q)) % N
     IN  P # 0 /\ XCoord(P) = sig.r

\* Secp256k1::recover_ecdsa: the key (s R - z G) / r for the point R whose x
\* coordinate is r and whose y parity is the low bit of the recovery id;
\* NoKey when recovery fails: r or s zero, no point with that x coordinate,
\* the recovered key at infinity.  Ids 2 and 3 ask for the x coordinate
\* r + N, which no point of the scaled-down curve has.
recover_ecdsa(z, signature) ==
  IF \/ signature.r = 0
     \/ signature.s = 0
     \/ signature.recid >= 2
     \/ signature.r > HalfN
  THEN NoKey
  ELSE LET R == IF signature.recid = 0 THEN signature.r ELSE Neg(signature.r)
       IN  Mul(Inv(signature.r), (Mul(signature.s, R) + Neg(Mul(z, G))) % N)

\* ECDSA signing of z under secret key sk with nonce k, low-S normalised.
\* The result has s = 0 when the nonce is unusable.
sign_with_nonce(sk, z, k) ==
  LET R == Mul(k, G)
      r == XCoord(R)
      s == Mul(Inv(k), (z + r * sk) % N)
  IN  IF s <= HalfN
      THEN [r |-> r, s |-> s, recid |-> YOdd(R)]
      ELSE [r |-> r, s |-> N - s, recid |-> 1 - YOdd(R)]

\* RFC 6979: the nonce is a function of the key and the message; candidates
\* are tried in a fixed order until one gives a usable signature.
RECURSIVE nonce_from(_, _, _)
nonce_from(sk, z, k) ==
  IF sign_with_nonce(sk, z, k).s # 0 THEN k
  ELSE nonce_from(sk, z, 1 + (k % (N - 1)))

rfc6979_nonce(sk, z) == nonce_from(sk, z, 1 + ((3 * sk + z) % (N - 1)))

sign_ecdsa_recoverable(sk, z) == sign_with_nonce(sk, z, rfc6979_nonce(sk, z))

\* Every signature the holder of sk can make over z, whatever the nonce.
SignedByTable ==
  [sk \in Points |-> [z \in Scalars |->
     {sign_with_nonce(sk, z, k) : k \in {j \in Points : sign_with_nonce(sk, z, j).s # 0}}]]

SignedBy(sk, z) == SignedByTable[sk][z]

(***************************************************************************)
(* SignatureVerifier.                                                      *)
(***************************************************************************)
\* enum Signer
SignerAddress(a) == [kind |-> "Address", val |-> a]

SignerPublicKey(Q) == [kind |-> "PublicKey", val |-> Q]

\* Result<bool, &'static str>
Ok(b) == IF b THEN "Ok(true)" ELSE "Ok(false)"

RecoveryFailure == "Err(Failed to recover signature)"

NoStore == [kind |-> "None", val |-> 0]

\* SignatureVerifier::new
new(address) == SignerAddress(address)

(***************************************************************************)
(* Variants of verify, each with one slip in it.                           *)
(***************************************************************************)
\* The store is done whether or not the derived address matched.
verify_store_unchecked(snapshot, message, signature) ==
  LET msg == MessageFromSlice(keccak(message))
  IN  IF snapshot.kind = "PublicKey"
      THEN [result |-> Ok(verify_ecdsa(msg, to_standard(signature), snapshot.val)),
            store  |-> NoStore]
      ELSE LET recovered_signer == recover_ecdsa(msg, signature)
           IN  IF recovered_signer = NoKey
               THEN [result |-> RecoveryFailure, store |-> NoStore]
               ELSE LET ser     == serialize_uncompressed(recovered_signer)
                        pk_hash == keccak(Tail(ser))
                        equal   == (pk_hash % AddrMod) = snapshot.val
                    IN  [result |-> Ok(equal),
                         store  |-> SignerPublicKey(recovered_signer)]

\* The store is done when the derived address did not match.
verify_store_inverted(snapshot, message, signature) ==
  LET msg == MessageFromSlice(keccak(message))
  IN  IF snapshot.kind = "PublicKey"
      THEN [result |-> Ok(verify_ecdsa(msg, to_standard(signature), snapshot.val)),
            store  |-> NoStore]
      ELSE LET recovered_signer == recover_ecdsa(msg, signature)
           IN  IF recovered_signer = NoKey
               THEN [result |-> RecoveryFailure, store |-> NoStore]
               ELSE LET ser     == serialize_uncompressed(recovered_signer)
                        pk_hash == keccak(Tail(ser))
                        equal   == (pk_hash % AddrMod) = snapshot.val
                    IN  [result |-> Ok(equal),
                         store  |-> IF ~equal THEN SignerPublicKey(recovered_signer)
                                    ELSE NoStore]

\* The address is taken from the first bytes of the hash, not the last.
verify_wrong_slice(snapshot, message, signature) ==
  LET msg == MessageFromSlice(keccak(message))
  IN  IF snapshot.kind = "PublicKey"
      THEN [result |-> Ok(verify_ecdsa(msg, to_standard(signature), snapshot.val)),
            store  |-> NoStore]
      ELSE LET recovered_signer == recover_ecdsa(msg, signature)
           IN  IF recovered_signer = NoKey
               THEN [result |-> RecoveryFailure, store |-> NoStore]
               ELSE LET ser     == serialize_uncompressed(recovered_signer)
                        pk_hash == keccak(Tail(ser))
                        equal   == (pk_hash \div 4) = snapshot.val
                    IN  [result |-> Ok(equal),
                         store  |-> IF equal THEN SignerPublicKey(recovered_signer)
                                    ELSE NoStore]

\* The fast path checks the signature against the message bytes, not their hash.
verify_fast_unhashed(snapshot, message, signature) ==
  LET msg == MessageFromSlice(keccak(message))
  IN  IF snapshot.kind = "PublicKey"
      THEN [result |-> Ok(verify_ecdsa(MessageFromSlice(Head(message)),
                                       to_standard(signature), snapshot.val)),
            store  |-> NoStore]
      ELSE LET recovered_signer == recover_ecdsa(msg, signature)
           IN  IF recovered_signer = NoKey
               THEN [result |-> RecoveryFailure, store |-> NoStore]
               ELSE LET ser     == serialize_uncompressed(recovered_signer)
                        pk_hash == keccak(Tail(ser))
                        equal   == (pk_hash % AddrMod) = snapshot.val
                    IN  [result |-> Ok(equal),
                         store  |-> IF equal THEN SignerPublicKey(recovered_signer)
                                    ELSE NoStore]

\* A failed recovery is reported as a mismatch.
verify_recover_false(snapshot, message, signature) ==
  LET msg == MessageFromSlice(keccak(message))
  IN  IF snapshot.kind = "PublicKey"
      THEN [result |-> Ok(verify_ecdsa(msg, to_standard(signature), snapshot.val)),
            store  |-> NoStore]
      ELSE LET recovered_signer == recover_ecdsa(msg, signature)
           IN  IF recovered_signer = NoKey
               THEN [result |-> Ok(FALSE), store |-> NoStore]
               ELSE LET ser     == serialize_uncompressed(recovered_signer)
                        pk_hash == keccak(Tail(ser))
                        equal   == (pk_hash % AddrMod) = snapshot.val
                    IN  [result |-> Ok(equal),
                         store  |-> IF equal THEN SignerPublicKey(recovered_signer)
                                    ELSE NoStore]

\* A mismatch is reported as an error.
verify_mismatch_err(snapshot, message, signature) ==
  LET msg == MessageFromSlice(keccak(message))
  IN  IF snapshot.kind = "PublicKey"
      THEN [result |-> Ok(verify_ecdsa(msg, to_standard(signature), snapshot.val)),
            store  |-> NoStore]
      ELSE LET recovered_signer == recover_ecdsa(msg, signature)
           IN  IF recovered_signer = NoKey
               THEN [result |-> RecoveryFailure, store |-> NoStore]
               ELSE LET ser     == serialize_uncompressed(recovered_signer)
                        pk_hash == keccak(Tail(ser))
                        equal   == (pk_hash % AddrMod) = snapshot.val
                    IN  [result |-> IF equal THEN Ok(TRUE) ELSE RecoveryFailure,
                         store  |-> IF equal THEN SignerPublicKey(recovered_signer)
                                    ELSE NoStore]

\* No fast path: the key is recovered on every call and compared with the
\* cached key.
verify_always_recover(snapshot, message, signature) ==
  LET msg == MessageFromSlice(keccak(message))
      recovered_signer == recover_ecdsa(msg, signature)
  IN  IF recovered_signer = NoKey
      THEN [result |-> RecoveryFailure, store |-> NoStore]
      ELSE IF snapshot.kind = "PublicKey"
      THEN [result |-> Ok(recovered_signer = snapshot.val), store |-> NoStore]
      ELSE LET ser     == serialize_uncompressed(recovered_signer)
               pk_hash == keccak(Tail(ser))
               equal   == (pk_hash % AddrMod) = snapshot.val
           IN  [result |-> Ok(equal),
                store  |-> IF equal THEN SignerPublicKey(recovered_signer)
                           ELSE NoStore]

\* The body of SignatureVerifier::verify after self.signer.load(): what the
\* call returns and what it stores into self.signer (NoStore when it stores
\* nothing), for the snapshot it loaded.
verify(snapshot, message, signature) ==
  LET msg == MessageFromSlice(keccak(message))
  IN  IF snapshot.kind = "PublicKey"
      THEN [result |-> Ok(verify_ecdsa(msg, to_standard(signature), snapshot.val)),
            store  |-> NoStore]
      ELSE LET recovered_signer == recover_ecdsa(msg, signature)
           IN  IF recovered_signer = NoKey
               THEN [result |-> RecoveryFailure, store |-> NoStore]
               ELSE LET ser     == serialize_uncompressed(recovered_signer)
                        pk_hash == keccak(Tail(ser))
                        equal   == (pk_hash % AddrMod) = snapshot.val
                    IN  [result |-> Ok(equal),
                         store  |-> IF equal THEN SignerPublicKey(recovered_signer)
                                    ELSE NoStore]

(***************************************************************************)
(* AttestationSigner.                                                      *)
(***************************************************************************)
\* "Graph Protocol"
DomainName == <<71, 114, 97, 112, 104, 32, 80, 114, 111, 116, 111, 99, 111, 108>>

\* "0"
DomainVersion == <<48>>

\* The leading bytes of the salt a070ffb1...
DomainSalt == <<160, 112, 255, 177>>

\* "Receipt", the type the struct hash starts with.
ReceiptTypeName == <<82, 101, 99, 101, 105, 112, 116>>

\* "EIP712Domain"
DomainTypeName == <<69, 73, 80, 55, 49, 50, 68, 111, 109, 97, 105, 110>>

\* DomainSeparator::new: the hash of the domain struct.
DomainSeparatorNew(domain) ==
  keccak(<<keccak(DomainTypeName), keccak(domain.name), keccak(domain.version),
           domain.chain_id, domain.verifying_contract, keccak(domain.salt)>>)

\* AttestationSigner::new
AttestationSignerNew(chain_id, dispute_manager, sk, subgraph_deployment_id) ==
  LET domain == [name               |-> DomainName,
                 version            |-> DomainVersion,
                 chain_id           |-> chain_id,
                 verifying_contract |-> dispute_manager,
                 salt               |-> DomainSalt]
  IN  [domain_separator       |-> DomainSeparatorNew(domain),
       signer                 |-> sk,
       subgraph_deployment_id |-> subgraph_deployment_id]

\* StructType for Receipt: the type name, then the members in visit order.
struct_hash(receipt) ==
  keccak(<<keccak(ReceiptTypeName), receipt.request_cid, receipt.response_cid,
           receipt.subgraph_deployment_id>>)

\* The bytes whose keccak sign_typed signs: 0x19 0x01, the domain separator,
\* the struct hash.
TypedMessage(domain_separator, receipt) ==
  <<25, 1, domain_separator, struct_hash(receipt)>>

\* eip_712_derive::sign_typed: (rs, v), v the recovery id.
sign_typed(domain_separator, receipt, sk) ==
  LET z   == MessageFromSlice(keccak(TypedMessage(domain_separator, receipt)))
      sig == sign_ecdsa_recoverable(sk, z)
  IN  [rs |-> <<sig.r, sig.s>>, v |-> sig.recid]

(***************************************************************************)
(* State.                                                                  *)
(***************************************************************************)
VARIABLES
  signer,    \* SignatureVerifier.signer: the value held by the ArcSwap cell
  expected,  \* the address SignatureVerifier::new was given
  th,        \* per thread: where its verify call stands, and the snapshot it loaded
  ret,       \* the verify call that returned last: its inputs, snapshot and outcome
  hist,      \* the kinds of verify calls that have returned so far
  attestation_signer,  \* the AttestationSigner: domain separator, key, deployment id
  attestations,        \* every (request, response, attestation) returned so far
  att_ret              \* the create_attestation call that returned last

vars == <<signer, expected, th, ret, hist, attestation_signer, attestations, att_ret>>

verifier_vars == <<signer, expected, th, ret, hist>>

signer_vars == <<attestation_signer, attestations, att_ret>>

\* Variant of create_attestation: r and s are cut from the wrong halves of rs.
create_attestation_swapped(self, request, response) ==
  LET request_cid  == keccak(request)
      response_cid == keccak(response)
      receipt == [request_cid            |-> request_cid,
                  response_cid           |-> response_cid,
                  subgraph_deployment_id |-> self.subgraph_deployment_id]
      signed  == sign_typed(self.domain_separator, receipt, self.signer)
  IN  [v |-> signed.v,
       r |-> signed.rs[2],
       s |-> signed.rs[1],
       subgraph_deployment_id |-> self.subgraph_deployment_id,
       request_cid  |-> request_cid,
       response_cid |-> response_cid]

\* Variant of create_attestation: the signature is made with a nonce that
\* changes from call to call.
create_attestation_fresh_nonce(self, request, response) ==
  LET request_cid  == keccak(request)
      response_cid == keccak(response)
      receipt == [request_cid            |-> request_cid,
                  response_cid           |-> response_cid,
                  subgraph_deployment_id |-> self.subgraph_deployment_id]
      z   == MessageFromSlice(keccak(TypedMessage(self.domain_separator, receipt)))
      sig == sign_with_nonce(self.signer, z,
               nonce_from(self.signer, z, 1 + (Cardinality(attestations) % (N - 1))))
  IN  [v |-> sig.recid,
       r |-> sig.r,
       s |-> sig.s,
       subgraph_deployment_id |-> self.subgraph_deployment_id,
       request_cid  |-> request_cid,
       response_cid |-> response_cid]

\* AttestationSigner::create_attestation
create_attestation(self, request, response) ==
  LET request_cid  == keccak(request)
      response_cid == keccak(response)
      receipt == [request_cid            |-> request_cid,
                  response_cid           |-> response_cid,
                  subgraph_deployment_id |-> self.subgraph_deployment_id]
      signed  == sign_typed(self.domain_separator, receipt, self.signer)
  IN  [v |-> signed.v,
       r |-> signed.rs[1],
       s |-> signed.rs[2],
       subgraph_deployment_id |-> self.subgraph_deployment_id,
       request_cid  |-> request_cid,
       response_cid |-> response_cid]


\* Byte strings the callers of verify pass as message.
Messages == {<<1>>, <<2>>}

Idle == [pc |-> "idle", snap |-> NoStore]

NoRet == [done |-> FALSE]

\* How a returned call relates to the verifier's expected address.
\*   "signed":   a signature a holder of the expected address made over the message;
\*   "mismatch": a recoverable signature whose key derives another address;
\*   "other":    anything else.
CallKind(message, signature) ==
  LET z == MessageFromSlice(keccak(message))
      Q == recover_ecdsa(z, signature)
  IN  IF \E sk \in Points : /\ DeriveAddress(PubKey(sk)) = expected
                            /\ signature \in SignedBy(sk, z)
      THEN "signed"
      ELSE IF Q # NoKey /\ DeriveAddress(Q) # expected
      THEN "mismatch"
      ELSE "other"

InitVerifier ==
  /\ expected \in Addresses
  /\ signer = new(expected)
  /\ th = [t \in Threads |-> Idle]
  /\ ret = NoRet
  /\ hist = {}

NoSigner == [domain_separator |-> 0, signer |-> 0, subgraph_deployment_id |-> 0]

NoAttestation == [done |-> FALSE]

\* A verifier alone, constructed for any address.
Init ==
  /\ InitVerifier
  /\ attestation_signer = NoSigner
  /\ attestations = {}
  /\ att_ret = NoAttestation

\* verify, line 33: self.signer.load() takes a snapshot of the cell.
\* (ret only records the last outcome for the caller: a step waits for Return
\* to take it, which changes nothing of the verifier.)
Load(t) ==
  /\ ret = NoRet
  /\ th[t].pc = "idle"
  /\ th' = [th EXCEPT ![t] = [pc |-> "loaded", snap |-> signer]]
  /\ UNCHANGED <<signer, expected, ret, hist, signer_vars>>

\* verify, lines 33-60: the match on the snapshot, the store (one atomic
\* replacement of the cell) and the return.  The message and signature are
\* the call's arguments; nothing shared is read between the load and the store.
Finish(t, message, signature) ==
  /\ ret = NoRet
  /\ th[t].pc = "loaded"
  /\ LET out == verify(th[t].snap, message, signature)
     IN  /\ signer' = IF out.store = NoStore THEN signer ELSE out.store
         /\ ret' = [done      |-> TRUE,
                    message   |-> message,
                    signature |-> signature,
                    snap      |-> th[t].snap,
                    result    |-> out.result,
                    stored    |-> out.store # NoStore,
                    before    |-> signer,
                    after     |-> signer']
  /\ hist' = hist \cup {CallKind(message, signature)}
  /\ th' = [th EXCEPT ![t] = Idle]
  /\ UNCHANGED <<expected, signer_vars>>

Verify(t) == \E message \in Messages, signature \in Signatures :
               Finish(t, message, signature)

\* The caller takes the outcome of the call that returned.
Return ==
  /\ ret # NoRet
  /\ ret' = NoRet
  /\ UNCHANGED <<signer, expected, th, hist, signer_vars>>

Next == \/ \E t \in Threads : Load(t) \/ Verify(t)
        \/ Return

Spec == Init /\ [][Next]_vars

(***************************************************************************)
(* An AttestationSigner and a verifier constructed for the signer's        *)
(* address; the verifier is given the attestations the signer returned.    *)
(***************************************************************************)
\* "foo" and "bar"
Payloads == {<<102, 111, 111>>, <<98, 97, 114>>}

ChainIds == {1}

DisputeManagers == {221}

DeploymentIds == {1}

InitAtt ==
  /\ \E chain_id \in ChainIds, dispute_manager \in DisputeManagers,
        sk \in Points, subgraph_deployment_id \in DeploymentIds :
       /\ attestation_signer =
            AttestationSignerNew(chain_id, dispute_manager, sk, subgraph_deployment_id)
       /\ expected = DeriveAddress(PubKey(sk))
  /\ signer = new(expected)
  /\ th = [t \in Threads |-> Idle]
  /\ ret = NoRet
  /\ hist = {}
  /\ attestations = {}
  /\ att_ret = NoAttestation

\* AttestationSignerImpl::_create_attestation: one call, run to its return.
CreateAttestation(request, response) ==
  LET attestation == create_attestation(attestation_signer, request, response)
  IN  /\ att_ret' = [done        |-> TRUE,
                     request     |-> request,
                     response    |-> response,
                     attestation |-> attestation,
                     repeated    |-> \E a \in attestations :
                                       a.request = request /\ a.response = response]
      /\ attestations' = attestations \cup
           {[request |-> request, response |-> response, attestation |-> attestation]}
      /\ UNCHANGED <<attestation_signer, verifier_vars>>

\* The message and signature a caller hands to verify for an attestation.
AttestationMessage(attestation) ==
  TypedMessage(attestation_signer.domain_separator,
               [request_cid            |-> attestation.request_cid,
                response_cid           |-> attestation.response_cid,
                subgraph_deployment_id |-> attestation.subgraph_deployment_id])

AttestationSignature(attestation) ==
  [r |-> attestation.r, s |-> attestation.s, recid |-> attestation.v]

VerifyAttestation(t) == \E a \in attestations :
  Finish(t, AttestationMessage(a.attestation), AttestationSignature(a.attestation))

NextAtt == \/ \E request \in Payloads, response \in Payloads :
                CreateAttestation(request, response)
           \/ \E t \in Threads : Load(t) \/ VerifyAttestation(t)
           \/ Return

SpecAtt == InitAtt /\ [][NextAtt]_vars

(***************************************************************************)
(* Properties of the verifier.                                             *)
(***************************************************************************)
\* The keys whose derived address is the verifier's expected address.
ExpectedKeys == {Q \in Points : DeriveAddress(Q) = expected}

RetHash == MessageFromSlice(keccak(ret.message))

RetRecovered == recover_ecdsa(RetHash, ret.signature)

RetKind == CallKind(ret.message, ret.signature)

\* C1: the identity starts as Address(expected); while it is Address it is
\* Address(expected); a step leaves it alone or moves it from Address to
\* PublicKey; once it is PublicKey(k) no step changes it.
C1_IdentityMonotone ==
  /\ signer = SignerAddress(expected)
  /\ [][/\ signer.kind = "Address" =>
            /\ signer = SignerAddress(expected)
            /\ signer' = signer \/ signer'.kind = "PublicKey"
        /\ signer.kind = "PublicKey" => signer' = signer]_vars

\* C1 witness: a call that had loaded the Address snapshot stored its key
\* after another call had already published one.
C1_Witness ==
  /\ ret # NoRet
  /\ ret.stored
  /\ ret.snap.kind = "Address"
  /\ ret.before.kind = "PublicKey"

C3_PathsAgree ==
  (ret # NoRet /\ ret.snap.kind = "PublicKey") =>
    ret.result = verify(SignerAddress(expected), ret.message, ret.signature).result

\* C3 amended: a call with a signature made by the expected signer returns
\* Ok(true) whichever snapshot it ran on, and both paths give Ok(true) for it.
C3_SignedTrueOnBothPaths ==
  (ret # NoRet /\ RetKind = "signed") =>
    /\ ret.result = Ok(TRUE)
    /\ verify(SignerAddress(expected), ret.message, ret.signature).result = Ok(TRUE)
    /\ \A Q \in ExpectedKeys :
         verify(SignerPublicKey(Q), ret.message, ret.signature).result = Ok(TRUE)

\* C3 witness: after the upgrade, a call with a signature made by the
\* expected signer ran on the PublicKey snapshot.
C3_Witness ==
  /\ ret # NoRet
  /\ ret.snap.kind = "PublicKey"
  /\ RetKind = "signed"
  /\ ret.result = Ok(TRUE)

\* C4 as stated: a call whose signature does not recover returns the
\* recovery error, whichever snapshot it ran on.
C4_UnrecoverableIsError ==
  (ret # NoRet /\ RetRecovered = NoKey) => ret.result = RecoveryFailure

\* C4 amended: a call whose signature does not recover stores nothing; on an
\* Address snapshot it returns the recovery error, on a PublicKey snapshot it
\* returns a boolean.  The error is returned only on an Address snapshot for a
\* signature that does not recover, and Ok(false) on an Address snapshot only
\* for a signature that recovers to a key of another address.
C4_UnrecoverableByPath ==
  ret # NoRet =>
    /\ RetRecovered = NoKey =>
         /\ ~ret.stored
         /\ ret.after = ret.before
         /\ ret.snap.kind = "Address" => ret.result = RecoveryFailure
         /\ ret.snap.kind = "PublicKey" => ret.result \in {Ok(TRUE), Ok(FALSE)}
    /\ ret.result = RecoveryFailure =>
         ret.snap.kind = "Address" /\ RetRecovered = NoKey
    /\ (ret.snap.kind = "Address" /\ ret.result = Ok(FALSE)) =>
         RetRecovered # NoKey /\ DeriveAddress(RetRecovered) # expected

\* C4 witness: a call on the Address snapshot with a signature that does not
\* recover returned the recovery error.
C4_Witness ==
  /\ ret # NoRet
  /\ ret.snap.kind = "Address"
  /\ RetRecovered = NoKey
  /\ ret.result = RecoveryFailure

\* C5: a call on the Address snapshot whose signature recovers to a key of
\* another address returns Ok(false) and stores nothing; while only such calls
\* have returned the identity is still Address(expected).
C5_MismatchLeavesAddress ==
  /\ (ret # NoRet /\ ret.snap.kind = "Address" /\ RetKind = "mismatch") =>
       /\ ret.result = Ok(FALSE)
       /\ ~ret.stored
       /\ ret.after = ret.before
  /\ hist \subseteq {"mismatch"} => signer = SignerAddress(expected)

\* C5 witness: a mismatching call returned, only mismatching calls having
\* returned so far.
C5_Witness ==
  /\ ret # NoRet
  /\ RetKind = "mismatch"
  /\ hist = {"mismatch"}
  /\ ret.result = Ok(FALSE)

\* C9: a cached key derives the expected address, and a call stores a key
\* only on an Address snapshot, the key being the one it recovered and found
\* to derive the expected address.
C9_CachedKeyDerivesAddress ==
  /\ signer.kind = "PublicKey" => DeriveAddress(signer.val) = expected
  /\ (ret # NoRet /\ ret.stored) =>
       /\ ret.snap = SignerAddress(expected)
       /\ RetRecovered # NoKey
       /\ DeriveAddress(RetRecovered) = expected
       /\ ret.after = SignerPublicKey(RetRecovered)

\* C9 witness: a call has just stored the key it recovered.
C9_Witness ==
  /\ ret # NoRet
  /\ ret.stored
  /\ signer.kind = "PublicKey"

\* C10: a call on a PublicKey snapshot returns a boolean, stores nothing, and
\* returns the same for every recovery id put on the same (r, s).
C10_FastPath ==
  (ret # NoRet /\ ret.snap.kind = "PublicKey") =>
    /\ ret.result \in {Ok(TRUE), Ok(FALSE)}
    /\ ~ret.stored
    /\ ret.after = ret.before
    /\ ret.result = Ok(verify_ecdsa(RetHash, to_standard(ret.signature), ret.snap.val))
    /\ \A c \in RecoveryIds :
         verify(ret.snap, ret.message, [ret.signature EXCEPT !.recid = c]).result
           = ret.result

\* C10 witness: a call on a PublicKey snapshot returned Ok(true) for a
\* signature whose recovery id admits no recovery.
C10_Witness ==
  /\ ret # NoRet
  /\ ret.snap.kind = "PublicKey"
  /\ RetRecovered = NoKey
  /\ ret.result = Ok(TRUE)

C8_RoundTrip ==
  (/\ ret # NoRet
   /\ expected = DeriveAddress(PubKey(attestation_signer.signer))
   /\ \E a \in attestations :
        /\ ret.message = AttestationMessage(a.attestation)
        /\ ret.signature = AttestationSignature(a.attestation))
  => ret.result = Ok(TRUE)

\* C8 witness: an attestation was verified on the PublicKey snapshot, after
\* one was verified on the Address snapshot.
C8_Witness ==
  /\ ret # NoRet
  /\ \E a \in attestations :
       /\ ret.message = AttestationMessage(a.attestation)
       /\ ret.signature = AttestationSignature(a.attestation)
  /\ ret.snap.kind = "PublicKey"
  /\ ret.result = Ok(TRUE)

====
